---- MODULE Spec2Model ----
(***************************************************************************)
(* The solar-system widget server of src/server.py: the identifier         *)
(* normalizer _normalize_planet, the SolarInput argument schema, and the   *)
(* five request handlers (list tools, list resources, list resource        *)
(* templates, read resource, call tool).                                   *)
(*                                                                         *)
(* A Python str is a sequence of one-character strings, so that strip(),   *)
(* lower(), isalnum(), startswith() and join() are computed character by   *)
(* character as the code computes them.  The literal parts of the Korean   *)
(* f-string messages are single ASCII tokens (MSG_...), one sequence       *)
(* element each.                                                           *)
(***************************************************************************)
EXTENDS Naturals, Sequences, FiniteSets, TLC

\* request, response: the request the server has in hand and the result of its
\* handler.  name, planet: an argument of _normalize_planet and what it returns.
VARIABLES request, response, name, planet

vars == <<request, response, name, planet>>

----------------------------------------------------------------------------
(* Characters and the str methods the normalizer uses.                     *)

LowerLetters == <<"a","b","c","d","e","f","g","h","i","j","k","l","m","n","o","p","q","r","s","t","u","v","w","x","y","z">>

UpperLetters == <<"A","B","C","D","E","F","G","H","I","J","K","L","M","N","O","P","Q","R","S","T","U","V","W","X","Y","Z">>

Digits == {"0","1","2","3","4","5","6","7","8","9"}

Range(s) == {s[i] : i \in DOMAIN s}

IndexOf(s, ch) == CHOOSE i \in DOMAIN s : s[i] = ch

\* str.isspace for one character
IsSpace(ch) == ch \in {" ", "\t", "\n"}

\* str.isalnum for one character
IsAlnum(ch) == ch \in Range(LowerLetters) \cup Range(UpperLetters) \cup Digits

\* str.lower for one character
LowerChar(ch) == IF ch \in Range(UpperLetters) THEN LowerLetters[IndexOf(UpperLetters, ch)] ELSE ch

\* str.lower
Lower(s) == [i \in DOMAIN s |-> LowerChar(s[i])]

RECURSIVE LStrip(_)
LStrip(s) == IF s # <<>> /\ IsSpace(Head(s)) THEN LStrip(Tail(s)) ELSE s

RECURSIVE RStrip(_)
RStrip(s) == IF s # <<>> /\ IsSpace(s[Len(s)]) THEN RStrip(SubSeq(s, 1, Len(s) - 1)) ELSE s

\* str.strip
Strip(s) == RStrip(LStrip(s))

\* slip: the filter on isalnum() left out
CleanKeepsAll(key) == key

\* ''.join(ch for ch in key if ch.isalnum())
Clean(key) == SelectSeq(key, IsAlnum)

\* slip: an empty prefix starts nothing
StartsWithNonEmpty(s, prefix) == prefix # <<>> /\ Len(prefix) <= Len(s) /\ SubSeq(s, 1, Len(prefix)) = prefix

\* str.startswith
StartsWith(s, prefix) == Len(prefix) <= Len(s) /\ SubSeq(s, 1, Len(prefix)) = prefix

\* sep.join(parts)
RECURSIVE Join(_, _)
Join(parts, sep) == IF parts = <<>> THEN <<>> ELSE IF Len(parts) = 1 THEN parts[1] ELSE parts[1] \o sep \o Join(Tail(parts), sep)

----------------------------------------------------------------------------
(* Module constants.                                                       *)

MIME_TYPE == "text/html+skybridge"

Mercury == <<"M","e","r","c","u","r","y">>

Venus == <<"V","e","n","u","s">>

Earth == <<"E","a","r","t","h">>

Mars == <<"M","a","r","s">>

Jupiter == <<"J","u","p","i","t","e","r">>

Saturn == <<"S","a","t","u","r","n">>

Uranus == <<"U","r","a","n","u","s">>

Neptune == <<"N","e","p","t","u","n","e">>

PLANETS == <<Mercury, Venus, Earth, Mars, Jupiter, Saturn, Uranus, Neptune>>

terra == <<"t","e","r","r","a">>

gaia == <<"g","a","i","a">>

soliii == <<"s","o","l","i","i","i">>

tellus == <<"t","e","l","l","u","s">>

ares == <<"a","r","e","s">>

jove == <<"j","o","v","e">>

zeus == <<"z","e","u","s">>

cronus == <<"c","r","o","n","u","s">>

ouranos == <<"o","u","r","a","n","o","s">>

poseidon == <<"p","o","s","e","i","d","o","n">>

PLANET_ALIASES == (terra :> Earth) @@ (gaia :> Earth) @@ (soliii :> Earth) @@ (tellus :> Earth) @@ (ares :> Mars) @@ (jove :> Jupiter) @@ (zeus :> Jupiter) @@ (cronus :> Saturn) @@ (ouranos :> Uranus) @@ (poseidon :> Neptune)

PLANET_DESCRIPTIONS == (Mercury :> "Mercury is the smallest planet in the Solar System and the closest to the Sun.") @@ (Venus :> "Venus, similar in size to Earth, is cloaked in thick clouds of sulfuric acid.") @@ (Earth :> "Earth is the only known planet to support life.") @@ (Mars :> "Mars, the Red Planet, shows evidence of ancient rivers and volcanoes.") @@ (Jupiter :> "Jupiter is the largest planet, a gas giant with a Great Red Spot.") @@ (Saturn :> "Saturn is famous for its stunning ring system.") @@ (Uranus :> "Uranus is an ice giant rotating on its side.") @@ (Neptune :> "Neptune, the farthest known giant, is a deep-blue world.")

DEFAULT_PLANET == Earth

\* Python's None where a str is expected (no str has an element of two characters)
None == <<"None">>

----------------------------------------------------------------------------
(* _normalize_planet                                                       *)

\* ''.join(ch for ch in planet.lower() if ch.isalnum())
PlanetKey(p) == Clean(Lower(p))

\* the first loop: the first planet, in PLANETS order, that the cleaned or the
\* stripped lowercase input equals
RECURSIVE ExactScan(_, _, _)
ExactScan(i, clean, key) == IF i > Len(PLANETS) THEN None ELSE IF clean = PlanetKey(PLANETS[i]) \/ key = Lower(PLANETS[i]) THEN PLANETS[i] ELSE ExactScan(i + 1, clean, key)

\* slip: the alias itself returned, not the planet it stands for
AliasGetKey(clean) == IF clean \in DOMAIN PLANET_ALIASES THEN clean ELSE None

\* PLANET_ALIASES.get(clean)
AliasGet(clean) == IF clean \in DOMAIN PLANET_ALIASES THEN PLANET_ALIASES[clean] ELSE None

\* slip: the loop keeps going and returns the last planet whose key starts with clean
RECURSIVE PrefixScanLast(_, _)
PrefixScanLast(i, clean) == IF i > Len(PLANETS) THEN None ELSE LET later == PrefixScanLast(i + 1, clean) IN IF later # None THEN later ELSE IF StartsWith(PlanetKey(PLANETS[i]), clean) THEN PLANETS[i] ELSE None

\* the second loop: the first planet, in PLANETS order, whose key starts with clean
RECURSIVE PrefixScan(_, _)
PrefixScan(i, clean) == IF i > Len(PLANETS) THEN None ELSE IF StartsWith(PlanetKey(PLANETS[i]), clean) THEN PLANETS[i] ELSE PrefixScan(i + 1, clean)

\* what follows the two early returns: exact loop, alias lookup, prefix loop
NormalizeKey(key) ==
    LET clean == Clean(key)
        exact == ExactScan(1, clean, key)
        alias == AliasGet(clean)
    IN  IF exact # None THEN exact ELSE IF alias # None THEN alias ELSE PrefixScan(1, clean)

\* slip: the second early return (the stripped name is empty) left out
NormalizeNoBlankCheck(nm) == IF nm = <<>> THEN DEFAULT_PLANET ELSE NormalizeKey(Lower(Strip(nm)))

_normalize_planet(nm) ==
    IF nm = <<>> THEN DEFAULT_PLANET
    ELSE LET key == Lower(Strip(nm))
         IN  IF key = <<>> THEN DEFAULT_PLANET ELSE NormalizeKey(key)

----------------------------------------------------------------------------
(* SolarWidget and the descriptors built from it.                          *)

\* _load_widget_html("solar-system"): the built asset, read once at import
\* (the import fails when there is none)
WIDGET_HTML == "<!doctype html><div id=solar-system-root></div>"

SOLAR_WIDGET == [identifier |-> "solar-system", title |-> "Explore the Solar System", template_uri |-> "ui://widget/solar-system-v1.html", invoking |-> "Charting the solar system", invoked |-> "Solar system ready", html |-> WIDGET_HTML, response_text |-> "Solar system ready_response text"]

\* Python's None where a mapping or a model is expected
NoContent == [none |-> TRUE]

\* SolarInput.model_json_schema(): properties are named by alias, extras forbidden
TOOL_INPUT_SCHEMA == [properties |-> {"planetName", "autoOrbit"}, additionalProperties |-> FALSE]

_resource_description(widget) == <<widget.title, " widget markup">>

_tool_meta(widget) == ("openai/outputTemplate" :> widget.template_uri) @@ ("openai/toolInvocation/invoking" :> widget.invoking) @@ ("openai/toolInvocation/invoked" :> widget.invoked) @@ ("openai/widgetAccessible" :> TRUE) @@ ("openai/resultCanProduceWidget" :> TRUE) @@ ("annotations" :> [destructiveHint |-> FALSE, openWorldHint |-> FALSE, readOnlyHint |-> TRUE])

\* slip: the embedded resource keeps the URI of the widget's earlier version
EmbeddedStaleUri(widget) == [type |-> "resource", resource |-> [uri |-> "ui://widget/solar-system.html", mimeType |-> MIME_TYPE, text |-> widget.html, title |-> widget.title]]

_embedded_widget_resource(widget) == [type |-> "resource", resource |-> [uri |-> widget.template_uri, mimeType |-> MIME_TYPE, text |-> widget.html, title |-> widget.title]]

_list_tools == << [name |-> "focus-solar-planet", title |-> SOLAR_WIDGET.title, description |-> "Render the solar system widget centered on the requested planet.", inputSchema |-> TOOL_INPUT_SCHEMA, meta |-> _tool_meta(SOLAR_WIDGET)] >>

_list_resources == << [name |-> SOLAR_WIDGET.title, title |-> SOLAR_WIDGET.title, uri |-> SOLAR_WIDGET.template_uri, description |-> _resource_description(SOLAR_WIDGET), mimeType |-> MIME_TYPE, meta |-> _tool_meta(SOLAR_WIDGET)] >>

_list_resource_templates == << [name |-> SOLAR_WIDGET.title, title |-> SOLAR_WIDGET.title, uriTemplate |-> SOLAR_WIDGET.template_uri, description |-> _resource_description(SOLAR_WIDGET), mimeType |-> MIME_TYPE, meta |-> _tool_meta(SOLAR_WIDGET)] >>

----------------------------------------------------------------------------
(* SolarInput: two fields, each read by its alias or by its name           *)
(* (populate_by_name), defaults for omitted fields, extra="forbid".        *)
(* An argument value is [type, value] with type "str", "bool" or "int".    *)

NoKey == ""

\* the key a field is read from: its alias first, then its name
FieldKey(arguments, alias, fieldName) == IF alias \in DOMAIN arguments THEN alias ELSE IF fieldName \in DOMAIN arguments THEN fieldName ELSE NoKey

\* planet_name: str (an int is not coerced to str)
PlanetNameErrors(arguments) ==
    LET k == FieldKey(arguments, "planetName", "planet_name")
    IN  IF k # NoKey /\ arguments[k].type # "str" THEN << [type |-> "string_type", loc |-> k] >> ELSE <<>>

\* auto_orbit: bool (bool, or the ints 0 and 1)
IsBoolInput(v) == v.type = "bool" \/ (v.type = "int" /\ v.value \in {0, 1})

AutoOrbitErrors(arguments) ==
    LET k == FieldKey(arguments, "autoOrbit", "auto_orbit")
    IN  IF k # NoKey /\ ~IsBoolInput(arguments[k]) THEN << [type |-> "bool_parsing", loc |-> k] >> ELSE <<>>

RECURSIVE SetToSeq(_)
SetToSeq(S) == IF S = {} THEN <<>> ELSE LET k == CHOOSE x \in S : TRUE IN <<k>> \o SetToSeq(S \ {k})

\* slip: extra="ignore", unknown keys dropped
ExtraIgnored(arguments) == <<>>

\* extra="forbid": one error for every key no field was read from
ExtraErrors(arguments) ==
    LET used == {FieldKey(arguments, "planetName", "planet_name"), FieldKey(arguments, "autoOrbit", "auto_orbit")}
        extras == SetToSeq(DOMAIN arguments \ used)
    IN  [i \in DOMAIN extras |-> [type |-> "extra_forbidden", loc |-> extras[i]]]

\* SolarInput.model_validate: the payload, or the errors of a ValidationError
SolarInput_model_validate(arguments) ==
    LET errors == PlanetNameErrors(arguments) \o AutoOrbitErrors(arguments) \o ExtraErrors(arguments)
        pk == FieldKey(arguments, "planetName", "planet_name")
        ok == FieldKey(arguments, "autoOrbit", "auto_orbit")
    IN  IF errors # <<>>
        THEN [valid |-> FALSE, errors |-> errors, planet_name |-> None, auto_orbit |-> FALSE]
        ELSE [valid |-> TRUE, errors |-> <<>>,
              planet_name |-> IF pk = NoKey THEN DEFAULT_PLANET ELSE arguments[pk].value,
              auto_orbit |-> IF ok = NoKey THEN TRUE ELSE IF arguments[ok].type = "bool" THEN arguments[ok].value ELSE arguments[ok].value = 1]

----------------------------------------------------------------------------
(* The two handlers installed in request_handlers.                         *)

MSG_NO_RESOURCE == "no such resource: "

MSG_INVALID_ARGUMENTS == "Invalid arguments: "

MSG_NOT_A_PLANET == " is not a planet; only one of these works: "

MSG_FOCUSED == " is now in focus"

\* str(e.errors()): every entry's type and loc appear in the text
RECURSIVE ErrorsText(_)
ErrorsText(errors) == IF errors = <<>> THEN <<>> ELSE <<"type", Head(errors).type, "loc", Head(errors).loc>> \o ErrorsText(Tail(errors))

\* slip: the URI check left out, the widget served for every URI
ReadResourceAnyUri(req) == [type |-> "ReadResourceResult", contents |-> << [uri |-> SOLAR_WIDGET.template_uri, mimeType |-> MIME_TYPE, text |-> SOLAR_WIDGET.html, meta |-> _tool_meta(SOLAR_WIDGET)] >>, meta |-> NoContent]

\* req.uri is the request's URI as the handler gets it, parsed by the transport:
\* str() of it is its text
_handle_read_resource(req) ==
    LET resource_uri == req.uri
    IN  IF resource_uri # SOLAR_WIDGET.template_uri
        THEN [type |-> "ReadResourceResult", contents |-> <<>>, meta |-> ("error" :> <<MSG_NO_RESOURCE, req.uri>>)]
        ELSE [type |-> "ReadResourceResult", contents |-> << [uri |-> SOLAR_WIDGET.template_uri, mimeType |-> MIME_TYPE, text |-> SOLAR_WIDGET.html, meta |-> _tool_meta(SOLAR_WIDGET)] >>, meta |-> NoContent]

\* the meta of a successful call
CallToolMeta(widget_resource) == ("openai.com/widget" :> widget_resource) @@ ("openai/outputTemplate" :> SOLAR_WIDGET.template_uri) @@ ("openai/toolInvocation/invoking" :> SOLAR_WIDGET.invoking) @@ ("openai/toolInvocation/invoked" :> SOLAR_WIDGET.invoked) @@ ("openai/widgetAccessible" :> TRUE) @@ ("openai/resultCanProduceWidget" :> TRUE)

\* PLANET_DESCRIPTIONS.get(planet, "")
DescriptionGet(p) == IF p \in DOMAIN PLANET_DESCRIPTIONS THEN PLANET_DESCRIPTIONS[p] ELSE ""

\* slip: joined with "," alone
PlanetListNoSpace == Join(PLANETS, <<",">>)

\* the vocabulary as the error message lists it
PlanetList == Join(PLANETS, <<",", " ">>)

_call_tool_request(req) ==
    LET arguments == IF req.hasArguments THEN req.arguments ELSE <<>>
        payload == SolarInput_model_validate(arguments)
        p == _normalize_planet(payload.planet_name)
    IN  IF ~payload.valid
        THEN [type |-> "CallToolResult", isError |-> TRUE,
              content |-> << [type |-> "text", text |-> <<MSG_INVALID_ARGUMENTS>> \o ErrorsText(payload.errors)] >>,
              structuredContent |-> NoContent, meta |-> NoContent]
        ELSE IF p = None
        THEN [type |-> "CallToolResult", isError |-> TRUE,
              content |-> << [type |-> "text", text |-> payload.planet_name \o <<MSG_NOT_A_PLANET>> \o PlanetList] >>,
              structuredContent |-> NoContent, meta |-> NoContent]
        ELSE [type |-> "CallToolResult", isError |-> FALSE,
              content |-> << [type |-> "text", text |-> p \o <<MSG_FOCUSED>>] >>,
              structuredContent |-> [planet_name |-> p, planet_description |-> DescriptionGet(p), autoOrbit |-> payload.auto_orbit],
              meta |-> CallToolMeta(_embedded_widget_resource(SOLAR_WIDGET))]

----------------------------------------------------------------------------
(* The inputs the handlers and the normalizer are exercised on.            *)

\* most characters inserted into a word
MaxInsert == 1

\* most whitespace characters put before, and after, a word
MaxPad == 1

\* longest string built freely over Alphabet
MaxLen == 3

UpperChar(ch) == IF ch \in Range(LowerLetters) THEN UpperLetters[IndexOf(LowerLetters, ch)] ELSE ch

Upper(s) == [i \in DOMAIN s |-> UpperChar(s[i])]

SwapCase(s) == [i \in DOMAIN s |-> IF s[i] \in Range(LowerLetters) THEN UpperChar(s[i]) ELSE LowerChar(s[i])]

Capitalize(s) == IF s = <<>> THEN s ELSE <<UpperChar(Head(s))>> \o Lower(Tail(s))

CaseVariants(w) == {w, Lower(w), Upper(w), SwapCase(w), Capitalize(w)}

\* characters that are neither letters nor digits
Punctuation == {"-", " "}

InsertAt(w, i, c) == SubSeq(w, 1, i) \o <<c>> \o SubSeq(w, i + 1, Len(w))

InsertOnce(S) == S \cup UNION {{InsertAt(w, i, c) : i \in 0..Len(w), c \in Punctuation} : w \in S}

RECURSIVE InsertUpTo(_, _)
InsertUpTo(S, n) == IF n = 0 THEN S ELSE InsertUpTo(InsertOnce(S), n - 1)

\* c between every two characters of w
Intersperse(w, c) == [i \in 1..(2 * Len(w) - 1) |-> IF i % 2 = 1 THEN w[(i + 1) \div 2] ELSE c]

Repeat(c, n) == [i \in 1..n |-> c]

Padded(w) == {Repeat(" ", l) \o w \o Repeat(" ", r) : l \in 0..MaxPad, r \in 0..MaxPad}

\* w in another letter case, with characters that are not alphanumeric inserted,
\* and with whitespace around it
Variants(w) == UNION {Padded(v) : v \in UNION {InsertUpTo({u}, MaxInsert) \cup {Intersperse(u, c) : c \in Punctuation} : u \in CaseVariants(w)}}

Vocabulary == Range(PLANETS)

VariantsOf == [w \in Vocabulary |-> Variants(w)]

AliasKeys == DOMAIN PLANET_ALIASES

\* the proper, non-empty prefixes of the planets' names
Prefixes == UNION {{SubSeq(p, 1, k) : k \in 1..(Len(p) - 1)} : p \in Vocabulary}

Pluto == <<"P","l","u","t","o">>

NotAnEntry == <<"z","z","-","n","o","t","-","a","-","r","e","a","l","-","e","n","t","r","y">>

Unknowns == {Pluto, NotAnEntry, Mars \o <<"x">>, <<"x">> \o Earth, <<"3">>}

\* names with no letter and no digit in them
SymbolNames == {<<"!", "!", "!">>, <<"-">>, <<" ", "!", "-">>}

Alphabet == {"m", "a", " ", "\t", "-"}

RECURSIVE StringsUpTo(_)
StringsUpTo(n) == IF n = 0 THEN {<<>>} ELSE LET shorter == StringsUpTo(n - 1) IN shorter \cup {Append(s, c) : s \in shorter, c \in Alphabet}

ShortStrings == StringsUpTo(MaxLen)

\* the names _normalize_planet is applied to
NormInputs == UNION {VariantsOf[w] : w \in Vocabulary} \cup UNION {CaseVariants(w) : w \in AliasKeys \cup Prefixes \cup Unknowns} \cup SymbolNames \cup ShortStrings

\* the planet names a call carries
CallNames == UNION {CaseVariants(w) : w \in Vocabulary \cup AliasKeys \cup Unknowns} \cup {Intersperse(Earth, c) : c \in Punctuation} \cup SymbolNames \cup ShortStrings

Str(s) == [type |-> "str", value |-> s]

Bool(b) == [type |-> "bool", value |-> b]

Int(n) == [type |-> "int", value |-> n]

\* no entry, or one entry under either spelling of the field's key (never both
\* spellings at once, and at most one key that is no field)
PlanetArgs == {<<>>, "planetName" :> Int(7)} \cup {k :> Str(s) : k \in {"planetName", "planet_name"}, s \in CallNames}

OrbitArgs == {<<>>, "autoOrbit" :> Bool(TRUE), "auto_orbit" :> Bool(FALSE), "autoOrbit" :> Int(7)}

ExtraArgs == {<<>>, "foo" :> Str(Mars), "planet" :> Str(Mars)}

ArgumentsSet == {p @@ o @@ x : p \in PlanetArgs, o \in OrbitArgs, x \in ExtraArgs}

ToolNames == {"focus-solar-planet", "check_user_data_access_permission"}

Uris == {SOLAR_WIDGET.template_uri, "ui://widget/Solar-System-v1.html", "ui://widget/solar-system-v1.html/", "ui://widget/solar-system-v2.html", "ui://widget/solar-system.html", "file://config.json"}

----------------------------------------------------------------------------
(* The server: one request is handled at a time, start to finish, and its  *)
(* result is sent back before the next.  No handler keeps state.           *)

NoRequest == [kind |-> "none"]

NoResponse == [type |-> "none"]

Pending == <<"pending">>

Init ==
    /\ request = NoRequest
    /\ response = NoResponse
    /\ name = <<>>
    /\ planet = Pending

ListTools ==
    /\ request = NoRequest
    /\ request' = [kind |-> "ListToolsRequest"]
    /\ response' = [type |-> "ListToolsResult", tools |-> _list_tools]
    /\ UNCHANGED <<name, planet>>

ListResources ==
    /\ request = NoRequest
    /\ request' = [kind |-> "ListResourcesRequest"]
    /\ response' = [type |-> "ListResourcesResult", resources |-> _list_resources]
    /\ UNCHANGED <<name, planet>>

ListResourceTemplates ==
    /\ request = NoRequest
    /\ request' = [kind |-> "ListResourceTemplatesRequest"]
    /\ response' = [type |-> "ListResourceTemplatesResult", resourceTemplates |-> _list_resource_templates]
    /\ UNCHANGED <<name, planet>>

ReadResource ==
    /\ request = NoRequest
    /\ \E uri \in Uris :
        /\ request' = [kind |-> "ReadResourceRequest", uri |-> uri]
        /\ response' = _handle_read_resource(request')
    /\ UNCHANGED <<name, planet>>

CallTool ==
    /\ request = NoRequest
    /\ \E nm \in ToolNames, hasArguments \in BOOLEAN :
        \E arguments \in IF hasArguments THEN ArgumentsSet ELSE {<<>>} :
            /\ request' = [kind |-> "CallToolRequest", name |-> nm, hasArguments |-> hasArguments, arguments |-> arguments]
            /\ response' = _call_tool_request(request')
    /\ UNCHANGED <<name, planet>>

\* the result goes back to the client; nothing of the request remains
Respond ==
    /\ request # NoRequest
    /\ request' = NoRequest
    /\ response' = NoResponse
    /\ UNCHANGED <<name, planet>>

Next == ListTools \/ ListResources \/ ListResourceTemplates \/ ReadResource \/ CallTool \/ Respond

Spec == Init /\ [][Next]_vars

(* _normalize_planet on its own, applied once to each name of NormInputs.  *)

InitNormalize ==
    /\ request = NoRequest
    /\ response = NoResponse
    /\ name \in NormInputs
    /\ planet = Pending

Normalize ==
    /\ planet = Pending
    /\ planet' = _normalize_planet(name)
    /\ UNCHANGED <<request, response, name>>

NextNormalize == Normalize

SpecNormalize == InitNormalize /\ [][NextNormalize]_vars

----------------------------------------------------------------------------
(* What the properties speak of.                                           *)

IsCall == request.kind = "CallToolRequest"

CallArguments == IF request.hasArguments THEN request.arguments ELSE <<>>

PlanetKeys == {"planet_name", "planetName"}

OrbitKeys == {"auto_orbit", "autoOrbit"}

SchemaKeys == PlanetKeys \cup OrbitKeys

\* the call carries a planet name, a str
HasPlanetName == \E k \in PlanetKeys \cap DOMAIN CallArguments : CallArguments[k].type = "str"

\* the planet name the call carries
GivenName == CallArguments[CHOOSE k \in PlanetKeys \cap DOMAIN CallArguments : TRUE].value

\* the call carries the planet name s
PlanetNameIs(s) == HasPlanetName /\ GivenName = s

PlanetNameOmitted == PlanetKeys \cap DOMAIN CallArguments = {}

\* nothing but the planet name can fail validation
RestIsValid ==
    /\ DOMAIN CallArguments \subseteq SchemaKeys
    /\ \A k \in OrbitKeys \cap DOMAIN CallArguments : CallArguments[k].type = "bool"

\* the text of the result's one content item
ResultText == response.content[1].text

\* the text names key k as the place of an error
TextNames(k) == \E i \in 1..(Len(ResultText) - 1) : ResultText[i] = "loc" /\ ResultText[i + 1] = k

\* the cleaned form of a name that is not blank
CleanOf(s) == Clean(Lower(Strip(s)))

IsPrefixOfSomePlanet(c) == \E p \in Vocabulary : StartsWith(Lower(p), c)

MinOf(S) == CHOOSE i \in S : \A j \in S : i <= j

\* what the stock dispatcher answers for a tool it does not know
MSG_UNKNOWN_TOOL == "Unknown tool: "

IsNotFound(res) == res.type # "CallToolResult" \/ (res.isError /\ res.content[1].text[1] = MSG_UNKNOWN_TOOL)

RegisteredToolNames == {_list_tools[i].name : i \in DOMAIN _list_tools}

----------------------------------------------------------------------------
(* The properties.                                                         *)

\* C1: a call of a tool name that list_tools does not enumerate is answered
\* NotFound, whatever its arguments: never with a validation error, never with
\* a successful result.
C1_UnregisteredNameIsNotFound == IsCall /\ request.name \notin RegisteredToolNames => IsNotFound(response)

\* C2: for every planet V of PLANETS, _normalize_planet returns V for V itself
\* and for every variant of V that differs only in letter case, in whitespace
\* around it, or in inserted characters that are not alphanumeric.
C2_VocabularyVariantsResolve == \A V \in Vocabulary : planet # Pending /\ name \in VariantsOf[V] => planet = V

C2_Witness == name = <<" ", "E", "A", "R", "-", "T", "H", " ">> /\ planet = Earth

\* C3: for every alias A of PLANET_ALIASES, mapped to C, _normalize_planet(A) is
\* C, and a call with planet name A (as the table spells it, or in another
\* letter case: "Terra") succeeds (isError false) with C, not A, as the planet
\* name of structuredContent.
C3_AliasResolvesToCanonical ==
    IsCall /\ RestIsValid /\ HasPlanetName /\ Lower(GivenName) \in AliasKeys =>
        /\ _normalize_planet(GivenName) = PLANET_ALIASES[Lower(GivenName)]
        /\ response.isError = FALSE
        /\ response.structuredContent.planet_name = PLANET_ALIASES[Lower(GivenName)]

C3_Witness == IsCall /\ PlanetNameIs(<<"T", "e", "r", "r", "a">>) /\ response.isError = FALSE /\ response.structuredContent.planet_name = Earth

\* C4: the phases of _normalize_planet run in the order exact match, alias
\* lookup, prefix fallback, and the first that matches decides: a name whose
\* cleaned form is a planet's gives that planet; otherwise one whose cleaned
\* form is an alias key gives the alias's planet; otherwise the result is the
\* first planet, in PLANETS order, whose lowercase form starts with the cleaned
\* name ("m" gives Mercury, not Mars); otherwise there is none.
C4_PhaseOrder ==
    planet # Pending /\ Strip(name) # <<>> =>
        LET clean == CleanOf(name)
            exact == {p \in Vocabulary : Lower(p) = clean}
            starts == {i \in DOMAIN PLANETS : StartsWith(Lower(PLANETS[i]), clean)}
        IN  IF exact # {} THEN planet \in exact
            ELSE IF clean \in AliasKeys THEN planet = PLANET_ALIASES[clean]
            ELSE IF starts # {} THEN planet = PLANETS[MinOf(starts)]
            ELSE planet = None

C4_Witness == name = <<"m">> /\ planet = Mercury

\* C5: a call that resolves no planet (the cleaned name is no planet, no alias
\* key and a prefix of no planet, as for "Pluto") has isError true, no
\* structuredContent and no widget metadata, and its text lists the whole
\* vocabulary, comma-joined in PLANETS order.
C5_UnresolvedIsErrorWithVocabulary ==
    LET s == GivenName
    IN  IsCall /\ RestIsValid /\ HasPlanetName /\ Strip(s) # <<>> /\ CleanOf(s) \notin {Lower(p) : p \in Vocabulary} \cup AliasKeys /\ ~IsPrefixOfSomePlanet(CleanOf(s)) =>
            /\ response.isError = TRUE
            /\ response.structuredContent = NoContent
            /\ response.meta = NoContent
            /\ ResultText = s \o <<MSG_NOT_A_PLANET>> \o Mercury \o <<",", " ">> \o Venus \o <<",", " ">> \o Earth \o <<",", " ">> \o Mars \o <<",", " ">> \o Jupiter \o <<",", " ">> \o Saturn \o <<",", " ">> \o Uranus \o <<",", " ">> \o Neptune

C5_Witness == IsCall /\ RestIsValid /\ PlanetNameIs(Pluto) /\ response.isError = TRUE /\ response.structuredContent = NoContent

\* C6: a call whose arguments hold a key that is no schema field (neither
\* planet_name/planetName nor auto_orbit/autoOrbit) is rejected: isError true,
\* the text names that key, and there is no structuredContent (the key is not
\* dropped and the rest processed).
C6_UnknownKeyIsRejected ==
    IsCall /\ ~(DOMAIN CallArguments \subseteq SchemaKeys) =>
        /\ response.isError = TRUE
        /\ response.structuredContent = NoContent
        /\ \A k \in DOMAIN CallArguments \ SchemaKeys : TextNames(k)

C6_Witness == IsCall /\ DOMAIN CallArguments = {"planetName", "foo"} /\ PlanetNameIs(Earth) /\ response.isError = TRUE /\ TextNames("foo")

\* C7: a call with the planet name omitted, empty or whitespace-only succeeds
\* and focuses the default planet Earth; an omitted autoOrbit reaches
\* structuredContent as its default, true.
C7_DefaultsApplied ==
    /\ IsCall /\ RestIsValid /\ (PlanetNameOmitted \/ (HasPlanetName /\ Strip(GivenName) = <<>>)) =>
        response.isError = FALSE /\ response.structuredContent.planet_name = <<"E", "a", "r", "t", "h">>
    /\ IsCall /\ response.isError = FALSE /\ OrbitKeys \cap DOMAIN CallArguments = {} =>
        response.structuredContent.autoOrbit = TRUE

C7_Witness == IsCall /\ DOMAIN CallArguments = {"planetName"} /\ PlanetNameIs(<<" ", "\t">>) /\ response.isError = FALSE /\ response.structuredContent.planet_name = Earth /\ response.structuredContent.autoOrbit = TRUE

\* C8: every successful call returns structuredContent whose planet name is one
\* of PLANETS, with a non-empty description, and metadata whose template
\* reference and embedded widget URI both equal the one URI that list_resources
\* enumerates and that read_resource serves with one content item (the item's
\* text is the built asset, whatever it holds).
C8_SuccessIsBound ==
    IsCall /\ response.isError = FALSE =>
        LET uri == response.meta["openai/outputTemplate"]
            served == _handle_read_resource([kind |-> "ReadResourceRequest", uri |-> uri])
        IN  /\ response.structuredContent.planet_name \in Vocabulary
            /\ response.structuredContent.planet_description # ""
            /\ response.meta["openai.com/widget"].resource.uri = uri
            /\ {_list_resources[i].uri : i \in DOMAIN _list_resources} = {uri}
            /\ Len(served.contents) = 1
            /\ served.contents[1].uri = uri

C8_Witness == IsCall /\ PlanetNameIs(Lower(Saturn)) /\ response.isError = FALSE /\ response.meta["openai/outputTemplate"] = "ui://widget/solar-system-v1.html"

\* C9: read_resource compares the requested URI exactly with the widget's: on
\* a match it returns one content item with that URI, the widget MIME type and
\* the widget HTML; on any other URI (one differing only in case, suffix or
\* version too) it returns a result with no contents and an error entry in its
\* metadata, not a fault and not the widget.
C9_ReadResourceExactMatch ==
    request.kind = "ReadResourceRequest" =>
        /\ response.type = "ReadResourceResult"
        /\ IF request.uri = "ui://widget/solar-system-v1.html"
           THEN response.contents = << [uri |-> "ui://widget/solar-system-v1.html", mimeType |-> "text/html+skybridge", text |-> WIDGET_HTML, meta |-> _tool_meta(SOLAR_WIDGET)] >>
           ELSE response.contents = <<>> /\ "error" \in DOMAIN response.meta

C9_Witness == request.kind = "ReadResourceRequest" /\ request.uri = "ui://widget/Solar-System-v1.html" /\ response.contents = <<>> /\ "error" \in DOMAIN response.meta

\* C10: for a planet name that is not blank but holds no alphanumeric character
\* ("!!!", "-"), _normalize_planet returns the first planet, Mercury, by the
\* prefix phase, so the call succeeds focused on Mercury: neither the default
\* Earth nor the unresolved error.
C10_SymbolsOnlyGiveMercury ==
    LET s == GivenName
    IN  IsCall /\ RestIsValid /\ HasPlanetName /\ Strip(s) # <<>> /\ (\A i \in DOMAIN s : ~IsAlnum(s[i])) =>
            /\ _normalize_planet(s) = <<"M", "e", "r", "c", "u", "r", "y">>
            /\ response.isError = FALSE
            /\ response.structuredContent.planet_name = <<"M", "e", "r", "c", "u", "r", "y">>

C10_Witness == IsCall /\ RestIsValid /\ PlanetNameIs(<<"!", "!", "!">>) /\ response.isError = FALSE /\ response.structuredContent.planet_name = Mercury

====
